---------------------------- MODULE Spec2Model ----------------------------
(***************************************************************************)
(* Model of the Component-checker Figma plugin (src/code.js).              *)
(*                                                                         *)
(* The document is a node tree provided by the host.  The plugin's message *)
(* handler (figma.ui.onmessage) reacts to four kinds of UI messages:       *)
(* scan-frame, cancel, resize-ui and select-component.  A scan-frame       *)
(* request validates the selection, locates every INSTANCE node below the  *)
(* selected root (findAllComponentInstances), awaits one main-component    *)
(* lookup per instance (isComponentLinked) and posts a scan-result.        *)
(*                                                                         *)
(* The handler modelled is the one registered for the Figma editor (lines  *)
(* 100-169).  Those for FigJam, Slides and Buzz (171-364) treat scan-frame, *)
(* cancel and resize-ui with the same code and differ only in looking the  *)
(* node of a select-component message up without an await.                 *)
(*                                                                         *)
(* Steps are the tasks of the JavaScript event loop: a handler runs up to  *)
(* its next await of a host call, and what follows the completion of that  *)
(* call runs in one piece.  The write-only parentIdMap of                  *)
(* scanFrameForComponents (lines 57 and 87) is left out.                   *)
(***************************************************************************)
EXTENDS Integers, Sequences, FiniteSets, TLC

\* ------------------------------------------------------------------ bounds
\* Largest number of nodes of a tree handed to findAllComponentInstances
\* directly (LocateSpec).
MaxNodes == 4
\* Largest number of nodes of the document the message handler works on (Spec).
MaxScanNodes == 3
\* Largest number of nodes of the document in the liveness check (LiveSpec).
MaxLiveNodes == 2
\* The UI messages of one run of the plugin, in the order they are received.
\* Two are what it takes for a message to arrive while the handler of an
\* earlier one is suspended at an await.
Requests == {1, 2}

\* ------------------------------------------------------- program constants
\* `let parentId = null`: node ids are the positive node numbers, 0 is null.
NullId == 0
\* figma.showUI(__html__, { width: 640, height: 300 })
InitialHeight == 300

\* ------------------------------------------------------------ input domains
NodeTypes == {"FRAME", "INSTANCE", "RECTANGLE"}
\* Node types of the host that expose a `children` property.
ContainerTypes == {"FRAME", "INSTANCE", "COMPONENT", "COMPONENT_SET"}
NodeNames == {"Btn", "Icon"}
\* `currentPath.length > 0 ? ... : null`
NullName == "null"
\* Values the host may give mainComponent.remote.
RemoteValues == {"true", "false", "undefined"}
\* What awaiting instance.getMainComponentAsync() can produce: it throws, it
\* returns null, or it returns a main component with some remote flag.
LookupOutcomes ==
    {[threw |-> TRUE, found |-> FALSE, remote |-> "undefined"],
     [threw |-> FALSE, found |-> FALSE, remote |-> "undefined"]}
    \cup {[threw |-> FALSE, found |-> TRUE, remote |-> v] : v \in RemoteValues}
\* msg.height of a resize-ui message.
Heights == {480}

VARIABLES
    nodes,      \* the document: node number -> [parent, type, name]; id = number
    selection,  \* figma.currentPage.selection (a sequence of node numbers)
    closed,     \* figma.closePlugin() has been called
    uiHeight,   \* height of the plugin window
    received,   \* number of UI messages received so far
    handler,    \* per received message: the state of its onmessage invocation
    located     \* result of a direct call of findAllComponentInstances

vars == <<nodes, selection, closed, uiHeight, received, handler, located>>

\* ------------------------------------------------------------ the node tree
NodeIds == DOMAIN nodes

\* Variant: the children of an INSTANCE are not visited.
Children_SkipInstance(node) ==
    IF nodes[node].type \in ContainerTypes \ {"INSTANCE"}
    THEN SelectSeq([i \in 1..Len(nodes) |-> i], LAMBDA c : nodes[c].parent = node)
    ELSE <<>>

\* Variant: the children are visited last to first.
Children_Reversed(node) ==
    IF nodes[node].type \in ContainerTypes
    THEN LET kids == SelectSeq([i \in 1..Len(nodes) |-> i],
                               LAMBDA c : nodes[c].parent = node)
         IN  [i \in 1..Len(kids) |-> kids[Len(kids) + 1 - i]]
    ELSE <<>>

\* node.children, in the host's order (ascending node number); the empty
\* sequence for a node without a `children` property.
Children(node) ==
    IF nodes[node].type \in ContainerTypes
    THEN SelectSeq([i \in 1..Len(nodes) |-> i], LAMBDA c : nodes[c].parent = node)
    ELSE <<>>

\* A well-formed document: node 1 is the root, every other node hangs below an
\* earlier node that exposes children.
WellFormed(t) ==
    /\ t[1].parent = 0
    /\ \A i \in 2..Len(t) :
          /\ t[i].parent \in 1..(i - 1)
          /\ t[t[i].parent].type \in ContainerTypes

Documents(maxNodes) ==
    UNION {
        {t \in [1..n -> [parent : 0..(n - 1), type : NodeTypes, name : NodeNames]] :
            WellFormed(t)} : n \in 1..maxNodes}

\* ------------------------------------------- findAllComponentInstances (7-29)
\* Lines 11-20: the record pushed for `node` (none unless it is an INSTANCE).
OwnRecord(node, level, parentPath) ==
    IF nodes[node].type = "INSTANCE"
    THEN << [node |-> node,
             level |-> level,
             parentPath |-> parentPath,
             parentName |-> IF Len(parentPath) > 0
                            THEN parentPath[Len(parentPath)]
                            ELSE NullName] >>
    ELSE <<>>

\* Line 9 and 19: the path handed to the children.
CurrentPath(node, parentPath) ==
    IF nodes[node].type = "INSTANCE"
    THEN Append(parentPath, nodes[node].name)
    ELSE parentPath

\* Variant: every node on the way down counts as a level.
ChildLevel_EveryNode(node, level) == level + 1

\* Line 24: the level handed to the children.
ChildLevel(node, level) ==
    level + (IF nodes[node].type = "INSTANCE" THEN 1 ELSE 0)

RECURSIVE findAllComponentInstances(_, _, _)
RECURSIVE findInChildren(_, _, _)

\* Lines 22-26: the loop over node.children, concatenating the results.
findInChildren(kids, level, currentPath) ==
    IF kids = <<>>
    THEN <<>>
    ELSE findAllComponentInstances(Head(kids), level, currentPath)
         \o findInChildren(Tail(kids), level, currentPath)

findAllComponentInstances(node, level, parentPath) ==
    OwnRecord(node, level, parentPath)
    \o findInChildren(Children(node),
                      ChildLevel(node, level),
                      CurrentPath(node, parentPath))

\* ------------------------------------------------- isComponentLinked (32-49)
\* The try block returns false for a missing main component and otherwise
\* `mainComponent.remote === true`; the catch block returns false.  The result
\* says whether the call threw and, if not, the value returned.
\* Variant: `mainComponent.remote !== false`.
isComponentLinked_NotFalse(lookup) ==
    IF lookup.threw
    THEN [threw |-> FALSE, value |-> FALSE]
    ELSE IF ~lookup.found
         THEN [threw |-> FALSE, value |-> FALSE]
         ELSE [threw |-> FALSE, value |-> (lookup.remote # "false")]

\* Variant: no try/catch around the lookup.
isComponentLinked_NoCatch(lookup) ==
    IF lookup.threw
    THEN [threw |-> TRUE, value |-> FALSE]
    ELSE IF ~lookup.found
         THEN [threw |-> FALSE, value |-> FALSE]
         ELSE [threw |-> FALSE, value |-> (lookup.remote = "true")]

isComponentLinked(lookup) ==
    IF lookup.threw
    THEN [threw |-> FALSE, value |-> FALSE]
    ELSE IF ~lookup.found
         THEN [threw |-> FALSE, value |-> FALSE]
         ELSE [threw |-> FALSE, value |-> (lookup.remote = "true")]

\* ---------------------------------------------------------- initial states
IdleHandler ==
    [type |-> "none", pc |-> "idle", selectedNode |-> NullId,
     componentId |-> NullId,
     instances |-> <<>>, traversed |-> FALSE, lookups |-> 0,
     lastLookup |-> <<>>, classified |-> <<>>, issues |-> <<>>,
     posted |-> <<>>]

NoLocated == [root |-> NullId, records |-> <<>>]

\* The plugin has shown its UI and registered the handler; the user has
\* selected nothing or one node of the document.
InitWith(maxNodes) ==
    /\ nodes \in Documents(maxNodes)
    /\ selection \in {<<>>} \cup {<<n>> : n \in 1..Len(nodes)}
    /\ closed = FALSE
    /\ uiHeight = InitialHeight
    /\ received = 0
    /\ handler = [r \in Requests |-> IdleHandler]
    /\ located = NoLocated

Init == InitWith(MaxScanNodes)

\* ------------------------------------------- scanFrameForComponents (52-97)
\* Lines 63-74: the id of the first located record named like the end of the
\* record's parentPath, one level up; null when there is none.
ParentId(rec, instances) ==
    IF Len(rec.parentPath) > 0
    THEN LET matching == {j \in 1..Len(instances) :
                            /\ nodes[instances[j].node].name
                                 = rec.parentPath[Len(rec.parentPath)]
                            /\ instances[j].level = rec.level - 1}
             first == CHOOSE j \in matching : \A k \in matching : j <= k
         IN  IF matching # {} THEN instances[first].node ELSE NullId
    ELSE NullId

\* Lines 76-84: the issue pushed for an instance that is not linked.
Issue(rec, instances) ==
    [name |-> nodes[rec.node].name,
     id |-> rec.node,
     type |-> "NOT_LINKED",
     level |-> rec.level,
     parentPath |-> rec.parentPath,
     parentName |-> rec.parentName,
     parentId |-> ParentId(rec, instances)]

\* Variant: issues.unshift instead of issues.push.
PushIssue_Unshift(issues, rec, instances, isLinked) ==
    IF ~isLinked THEN <<Issue(rec, instances)>> \o issues ELSE issues

\* Lines 62 and 76: issues after the record has been classified.
PushIssue(issues, rec, instances, isLinked) ==
    IF ~isLinked THEN Append(issues, Issue(rec, instances)) ELSE issues

\* Variant: totalComponents counts the issues.
ScanResult_CountsIssues(frame, instances, issues) ==
    [totalComponents |-> Len(issues),
     totalIssues |-> Len(issues),
     issues |-> issues,
     frameName |-> nodes[frame].name]

\* Lines 91-96: the value scanFrameForComponents returns.
ScanResult(frame, instances, issues) ==
    [totalComponents |-> Len(instances),
     totalIssues |-> Len(issues),
     issues |-> issues,
     frameName |-> nodes[frame].name]

\* ------------------------------------------- figma.ui.onmessage (105-168)
\* Variant: no check of the selected node's type.
IsValidRoot_Any(node) == TRUE

\* Variant: an INSTANCE is accepted as a root too.
IsValidRoot_OrInstance(node) ==
    nodes[node].type \in {"FRAME", "COMPONENT", "COMPONENT_SET", "INSTANCE"}

\* Line 121: the selected node may be scanned.
IsValidRoot(node) ==
    nodes[node].type \in {"FRAME", "COMPONENT", "COMPONENT_SET"}

NoSelectionError == [type |-> "scan-result",
                     error |-> "Por favor, selecciona un frame para escanear."]
InvalidRootError == [type |-> "scan-result",
                     error |-> "Por favor, selecciona un Frame, Component o Component Set."]
ResultMessage(scanResult) == [type |-> "scan-result", result |-> scanResult]
NotFoundError == [type |-> "selection-error",
                  error |-> "No se pudo encontrar el componente."]
SelectFailedError == [type |-> "selection-error",
                      error |-> "Error al seleccionar el componente: "]

\* The message received next is number r.
Receives(r) ==
    /\ ~closed
    /\ r = received + 1
    /\ r \in Requests
    /\ received' = r

\* Lines 106-137 up to the first await: the selection is checked, the tree is
\* traversed and the first lookup is issued.  With no instance below the root
\* the loop body never runs and the result is posted in the same task.
ScanFrame(r) ==
    /\ Receives(r)
    /\ IF Len(selection) = 0
       THEN handler' = [handler EXCEPT ![r] =
                [@ EXCEPT !.type = "scan-frame", !.pc = "done",
                          !.posted = Append(@, NoSelectionError)]]
       ELSE LET selectedNode == selection[1] IN
            IF ~IsValidRoot(selectedNode)
            THEN handler' = [handler EXCEPT ![r] =
                    [@ EXCEPT !.type = "scan-frame", !.pc = "done",
                              !.selectedNode = selectedNode,
                              !.posted = Append(@, InvalidRootError)]]
            ELSE LET instances == findAllComponentInstances(selectedNode, 0, <<>>) IN
                 IF Len(instances) = 0
                 THEN handler' = [handler EXCEPT ![r] =
                        [@ EXCEPT !.type = "scan-frame", !.pc = "done",
                                  !.selectedNode = selectedNode,
                                  !.traversed = TRUE,
                                  !.posted = Append(@, ResultMessage(
                                      ScanResult(selectedNode, instances, <<>>)))]]
                 ELSE handler' = [handler EXCEPT ![r] =
                        [@ EXCEPT !.type = "scan-frame", !.pc = "awaitLookup",
                                  !.selectedNode = selectedNode,
                                  !.traversed = TRUE,
                                  !.instances = instances,
                                  !.lookups = 1]]
    /\ UNCHANGED <<nodes, selection, closed, uiHeight, located>>

\* Lines 59-89 and 91-96, 130-136: the awaited lookup of the current record
\* completes with `lookup`.  The record is classified, an issue is pushed if
\* it is not linked, and either the next lookup is issued or the loop ends and
\* the result is posted.  A call of isComponentLinked that throws rejects the
\* promise of scanFrameForComponents and of the handler: nothing is posted.
LookupCompletes(r, lookup) ==
    /\ ~closed
    /\ handler[r].pc = "awaitLookup"
    /\ LET h == handler[r]
           i == Len(h.classified) + 1
           rec == h.instances[i]
           isLinked == isComponentLinked(lookup)
           issues == PushIssue(h.issues, rec, h.instances, isLinked.value)
       IN  IF isLinked.threw
           THEN handler' = [handler EXCEPT ![r] =
                    [@ EXCEPT !.pc = "aborted", !.lastLookup = <<lookup>>]]
           ELSE IF i < Len(h.instances)
           THEN handler' = [handler EXCEPT ![r] =
                    [@ EXCEPT !.lastLookup = <<lookup>>,
                              !.classified = Append(@, isLinked.value),
                              !.issues = issues,
                              !.lookups = @ + 1]]
           ELSE handler' = [handler EXCEPT ![r] =
                    [@ EXCEPT !.pc = "done",
                              !.lastLookup = <<lookup>>,
                              !.classified = Append(@, isLinked.value),
                              !.issues = issues,
                              !.posted = Append(@, ResultMessage(
                                  ScanResult(h.selectedNode, h.instances, issues)))]]
    /\ UNCHANGED <<nodes, selection, closed, uiHeight, received, located>>

\* Lines 139-141: figma.closePlugin() ends the plugin; no handler resumes and
\* no message reaches the UI afterwards.
Cancel(r) ==
    /\ Receives(r)
    /\ closed' = TRUE
    /\ handler' = [handler EXCEPT ![r] = [@ EXCEPT !.type = "cancel", !.pc = "done"]]
    /\ UNCHANGED <<nodes, selection, uiHeight, located>>

\* Lines 143-146: figma.ui.resize(640, msg.height).
ResizeUi(r, height) ==
    /\ Receives(r)
    /\ uiHeight' = height
    /\ handler' = [handler EXCEPT ![r] = [@ EXCEPT !.type = "resize-ui", !.pc = "done"]]
    /\ UNCHANGED <<nodes, selection, closed, located>>

\* Lines 148-151: the handler awaits figma.getNodeByIdAsync(msg.componentId).
SelectComponent(r, componentId) ==
    /\ Receives(r)
    /\ handler' = [handler EXCEPT ![r] =
            [@ EXCEPT !.type = "select-component", !.pc = "awaitNode",
                      !.componentId = componentId]]
    /\ UNCHANGED <<nodes, selection, closed, uiHeight, located>>

\* Lines 151-166: the node lookup completes.  A node of the document becomes
\* the selection; an unknown id or a throwing lookup posts a selection-error.
NodeLookupCompletes(r, threw) ==
    /\ ~closed
    /\ handler[r].pc = "awaitNode"
    /\ LET componentId == handler[r].componentId IN
       IF threw
       THEN /\ handler' = [handler EXCEPT ![r] =
                    [@ EXCEPT !.pc = "done", !.posted = Append(@, SelectFailedError)]]
            /\ UNCHANGED selection
       ELSE IF componentId \in NodeIds
       THEN /\ selection' = <<componentId>>
            /\ handler' = [handler EXCEPT ![r] = [@ EXCEPT !.pc = "done"]]
       ELSE /\ handler' = [handler EXCEPT ![r] =
                    [@ EXCEPT !.pc = "done", !.posted = Append(@, NotFoundError)]]
            /\ UNCHANGED selection
    /\ UNCHANGED <<nodes, closed, uiHeight, received, located>>

Next ==
    \/ \E r \in Requests : ScanFrame(r)
    \/ \E r \in Requests, lookup \in LookupOutcomes : LookupCompletes(r, lookup)
    \/ \E r \in Requests : Cancel(r)
    \/ \E r \in Requests, height \in Heights : ResizeUi(r, height)
    \/ \E r \in Requests, id \in 1..(Len(nodes) + 1) : SelectComponent(r, id)
    \/ \E r \in Requests, threw \in BOOLEAN : NodeLookupCompletes(r, threw)

Spec == Init /\ [][Next]_vars

\* Every awaited host call eventually completes while the plugin is open.
Fairness ==
    /\ \A r \in Requests : WF_vars(\E lookup \in LookupOutcomes : LookupCompletes(r, lookup))
    /\ \A r \in Requests : WF_vars(\E threw \in BOOLEAN : NodeLookupCompletes(r, threw))

LiveInit == InitWith(MaxLiveNodes)

LiveSpec == LiveInit /\ [][Next]_vars /\ Fairness

\* ----------------------------------------------- the locator called directly
Locate(root) ==
    /\ located' = [root |-> root,
                   records |-> findAllComponentInstances(root, 0, <<>>)]
    /\ UNCHANGED <<nodes, selection, closed, uiHeight, received, handler>>

LocateNext == \E root \in NodeIds : Locate(root)

LocateInit ==
    /\ nodes \in Documents(MaxNodes)
    /\ selection = <<>>
    /\ closed = FALSE
    /\ uiHeight = InitialHeight
    /\ received = 0
    /\ handler = [r \in Requests |-> IdleHandler]
    /\ located = NoLocated

LocateSpec == LocateInit /\ [][LocateNext]_vars

\* ================================================================ properties
\* The tree read off the parent pointers, independently of the traversal.
RECURSIVE AncestorsOf(_)
AncestorsOf(node) ==
    IF nodes[node].parent = 0
    THEN {}
    ELSE {nodes[node].parent} \cup AncestorsOf(nodes[node].parent)

Subtree(root) == {n \in NodeIds : n = root \/ root \in AncestorsOf(n)}

InstancesIn(root) == {n \in Subtree(root) : nodes[n].type = "INSTANCE"}

\* The strict ancestors of `node` that lie in the tree scanned from `root`.
AncestorsWithin(root, node) == AncestorsOf(node) \cap Subtree(root)

\* Position of the record of `node` in `records`.
Pos(records, node) == CHOOSE i \in 1..Len(records) : records[i].node = node

Unrelated(a, b) == a # b /\ a \notin AncestorsOf(b) /\ b \notin AncestorsOf(a)

\* The child of the lowest common ancestor of a and b that leads to a.
BranchToward(a, b) ==
    LET common == AncestorsOf(a) \cap AncestorsOf(b)
        lowest == CHOOSE c \in common : \A d \in common : d = c \/ d \in AncestorsOf(c)
    IN  CHOOSE k \in {a} \cup AncestorsOf(a) : nodes[k].parent = lowest

HasLocated == located.root # NullId

\* C2: findAllComponentInstances returns one record for each INSTANCE node of
\* the tree below (and including) the root and no record for any other node:
\* the nodes of the records are exactly the INSTANCE nodes, and there are as
\* many records as INSTANCE nodes, so none is missed or duplicated.
C2_LocatesExactlyTheInstances ==
    HasLocated =>
        /\ {located.records[i].node : i \in 1..Len(located.records)}
             = InstancesIn(located.root)
        /\ Len(located.records) = Cardinality(InstancesIn(located.root))

\* An INSTANCE root with a nested INSTANCE below a node that is none.
C2_Witness ==
    /\ HasLocated
    /\ nodes[located.root].type = "INSTANCE"
    /\ Len(located.records) >= 2
    /\ located.records[1].node = located.root
    /\ \E n \in Subtree(located.root) : nodes[n].type # "INSTANCE"

\* C3: the level of every record is the number of strict ancestors of its
\* node, within the scanned tree, whose type is INSTANCE; other ancestors do
\* not count.
C3_LevelCountsInstanceAncestors ==
    HasLocated =>
        \A i \in 1..Len(located.records) :
            located.records[i].level
              = Cardinality({a \in AncestorsWithin(located.root, located.records[i].node) :
                                nodes[a].type = "INSTANCE"})

\* A record at level 1 or more with a scanned ancestor that is no INSTANCE.
C3_Witness ==
    /\ HasLocated
    /\ \E i \in 1..Len(located.records) :
          /\ located.records[i].level >= 1
          /\ \E a \in AncestorsWithin(located.root, located.records[i].node) :
                nodes[a].type # "INSTANCE"

\* C5: the records are in depth-first pre-order with the children in their
\* original order: the record of an INSTANCE precedes the records of the
\* INSTANCEs below it, and of two INSTANCEs in different child subtrees of a
\* common ancestor the one in the earlier child subtree comes first.
C5_PreOrder ==
    HasLocated =>
        \A a, b \in InstancesIn(located.root) :
            /\ a \in AncestorsOf(b)
                 => Pos(located.records, a) < Pos(located.records, b)
            /\ (Unrelated(a, b) /\ BranchToward(a, b) < BranchToward(b, a))
                 => Pos(located.records, a) < Pos(located.records, b)

\* Two unrelated INSTANCEs recorded against the order of their node numbers,
\* and an INSTANCE with an INSTANCE below it.
C5_Witness ==
    /\ HasLocated
    /\ \E a, b \in InstancesIn(located.root) :
          /\ Unrelated(a, b)
          /\ a > b
          /\ Pos(located.records, a) < Pos(located.records, b)
    /\ \E a, b \in InstancesIn(located.root) : a \in AncestorsOf(b)

\* ------------------------------------------------ properties of the handler
ScanRequests == {r \in Requests : handler[r].type = "scan-frame"}

\* The request was made with an empty selection or a root of a wrong type.
InvalidRoot(r) ==
    \/ handler[r].selectedNode = NullId
    \/ nodes[handler[r].selectedNode].type \notin {"FRAME", "COMPONENT", "COMPONENT_SET"}

Results(r) ==
    {i \in 1..Len(handler[r].posted) : "result" \in DOMAIN handler[r].posted[i]}

Rejections(r) ==
    {i \in 1..Len(handler[r].posted) : "error" \in DOMAIN handler[r].posted[i]}

\* The located records classified so far that are not linked, in record order.
UnlinkedSoFar(r) ==
    SelectSeq([i \in 1..Len(handler[r].classified) |-> i],
              LAMBDA i : ~handler[r].classified[i])

LinkedCount(r) ==
    Cardinality({i \in 1..Len(handler[r].classified) : handler[r].classified[i]})

\* Record j is one the reconnection of `issue` can match: another node, named
\* like the end of the issue's parentPath, one level up.
MatchesParent(r, issue, j) ==
    /\ handler[r].instances[j].node # issue.id
    /\ issue.parentPath # <<>>
    /\ nodes[handler[r].instances[j].node].name = issue.parentPath[Len(issue.parentPath)]
    /\ handler[r].instances[j].level = issue.level - 1

C4_LinkedIffRemoteTrue ==
    \A r \in ScanRequests :
        handler[r].lastLookup # <<>> =>
            /\ handler[r].classified # <<>>
            /\ handler[r].classified[Len(handler[r].classified)]
                 = (/\ ~handler[r].lastLookup[1].threw
                    /\ handler[r].lastLookup[1].found
                    /\ handler[r].lastLookup[1].remote = "true")

\* A main component whose remote flag is neither true nor false: unlinked.
C4_Witness ==
    \E r \in ScanRequests :
        /\ handler[r].lastLookup # <<>>
        /\ handler[r].lastLookup[1].found
        /\ handler[r].lastLookup[1].remote = "undefined"
        /\ handler[r].classified # <<>>
        /\ ~handler[r].classified[Len(handler[r].classified)]

\* C6: the issues are the records classified as unlinked, each once, in record
\* order, and no linked record; the posted ScanResult carries these issues
\* and only after every record has been classified.
C6_IssuesAreUnlinkedInOrder ==
    \A r \in ScanRequests :
        /\ Len(handler[r].issues) = Len(UnlinkedSoFar(r))
        /\ \A k \in 1..Len(handler[r].issues) :
              handler[r].issues[k].id = handler[r].instances[UnlinkedSoFar(r)[k]].node
        /\ \A m \in Results(r) :
              /\ handler[r].posted[m].result.issues = handler[r].issues
              /\ Len(handler[r].classified) = Len(handler[r].instances)

\* A posted result with two issues.
C6_Witness ==
    \E r \in ScanRequests : \E m \in Results(r) :
        /\ Len(handler[r].posted[m].result.issues) = 2
        /\ handler[r].posted[m].result.issues[1].id
             # handler[r].posted[m].result.issues[2].id

\* C7: in a posted ScanResult totalComponents is the number of located
\* records, totalIssues the number of issues, totalComponents is totalIssues
\* plus the number of linked instances, and 0 <= totalIssues <= totalComponents.
C7_TotalsAddUp ==
    \A r \in ScanRequests : \A m \in Results(r) :
        LET res == handler[r].posted[m].result IN
        /\ res.totalComponents = Len(handler[r].instances)
        /\ res.totalIssues = Len(res.issues)
        /\ res.totalComponents = res.totalIssues + LinkedCount(r)
        /\ 0 <= res.totalIssues
        /\ res.totalIssues <= res.totalComponents

\* A posted result with a linked and an unlinked instance.
C7_Witness ==
    \E r \in ScanRequests : \E m \in Results(r) :
        /\ handler[r].posted[m].result.totalIssues = 1
        /\ handler[r].posted[m].result.totalComponents = 2

\* C8: a scan-frame request made with an empty selection or a root that is no
\* FRAME, COMPONENT or COMPONENT_SET is answered with an error and nothing
\* else: no traversal, no lookup, no ScanResult.
C8_InvalidRootRejected ==
    \A r \in ScanRequests :
        InvalidRoot(r) =>
            /\ handler[r].pc = "done"
            /\ Len(handler[r].posted) = 1
            /\ Rejections(r) = {1}
            /\ Results(r) = {}
            /\ ~handler[r].traversed
            /\ handler[r].instances = <<>>
            /\ handler[r].lookups = 0
            /\ handler[r].lastLookup = <<>>

\* A rejected request whose selected node is an INSTANCE with an INSTANCE
\* below it.
C8_Witness ==
    \E r \in ScanRequests :
        /\ handler[r].selectedNode # NullId
        /\ nodes[handler[r].selectedNode].type = "INSTANCE"
        /\ InstancesIn(handler[r].selectedNode) # {handler[r].selectedNode}
        /\ Rejections(r) = {1}

\* C9: a lookup that throws does not abort the scan: the instance is recorded
\* as an issue, and either the lookup of the next record has been issued or
\* every record has been classified and a ScanResult posted.
C9_ThrowDoesNotAbort ==
    \A r \in ScanRequests :
        /\ handler[r].pc # "aborted"
        /\ (handler[r].lastLookup # <<>> /\ handler[r].lastLookup[1].threw) =>
              LET n == Len(handler[r].classified) IN
              /\ n >= 1
              /\ ~handler[r].classified[n]
              /\ handler[r].issues # <<>>
              /\ handler[r].issues[Len(handler[r].issues)].id = handler[r].instances[n].node
              /\ \/ /\ handler[r].pc = "awaitLookup"
                    /\ n < Len(handler[r].instances)
                    /\ handler[r].lookups = n + 1
                 \/ /\ handler[r].pc = "done"
                    /\ n = Len(handler[r].instances)
                    /\ Results(r) = {1}
                    /\ Rejections(r) = {}
        /\ (handler[r].traversed /\ handler[r].pc = "done") =>
              /\ Len(handler[r].classified) = Len(handler[r].instances)
              /\ handler[r].lookups = Len(handler[r].instances)
              /\ Results(r) = {1}

\* The first lookup threw and the second has been issued.
C9_Witness ==
    \E r \in ScanRequests :
        /\ handler[r].lastLookup # <<>>
        /\ handler[r].lastLookup[1].threw
        /\ handler[r].pc = "awaitLookup"
        /\ handler[r].lookups = 2

\* What is posted for a scan-frame request: at most one message, an error or
\* a result and not both, a result only for a valid root and an error only
\* for an invalid one.
ResponseWellFormed(r) ==
    /\ Len(handler[r].posted) <= 1
    /\ \A i \in 1..Len(handler[r].posted) :
          /\ handler[r].posted[i].type = "scan-result"
          /\ ("error" \in DOMAIN handler[r].posted[i])
               # ("result" \in DOMAIN handler[r].posted[i])
    /\ InvalidRoot(r) => Results(r) = {}
    /\ ~InvalidRoot(r) => Rejections(r) = {}

Responded(r) == Len(handler[r].posted) = 1

\* C10 as stated: when every lookup completes, each scan-frame request leads
\* to exactly one scan-result message, a rejection or a ScanResult according
\* to the root.
C10_EveryRequestAnswered ==
    /\ [](\A r \in ScanRequests : ResponseWellFormed(r))
    /\ \A r \in Requests : (handler[r].type = "scan-frame") ~> Responded(r)

\* C10 amended: when every lookup completes, each scan-frame request leads to
\* exactly one scan-result message, a rejection or a ScanResult according to
\* the root, unless a cancel message closes the plugin before the response is
\* posted; no request is ever answered twice or with the wrong kind of message.
C10_AnsweredUnlessClosed ==
    /\ [](\A r \in ScanRequests : ResponseWellFormed(r))
    /\ \A r \in Requests : (handler[r].type = "scan-frame") ~> (Responded(r) \/ closed)

\* Two requests with a valid root, each answered with one ScanResult after
\* its lookup, the plugin still open.
C10_Witness ==
    /\ ~closed
    /\ \A r \in Requests :
          /\ handler[r].type = "scan-frame"
          /\ handler[r].lookups >= 1
          /\ Results(r) = {1}
          /\ Len(handler[r].posted) = 1

=============================================================================
